---------------------------- MODULE Spec2Model ----------------------------
(***************************************************************************)
(* Model of the knowledge-graph viewer of ICD-AutoCoder                    *)
(* (src/unnamed/part_001, the GraphViewer component):                      *)
(*   - the graph builder: the body of GraphViewer that turns the stored    *)
(*     graph data and the prediction result into the node and edge lists   *)
(*     handed to renderGraph;                                              *)
(*   - calculateNodePositions, the force-directed layout;                  *)
(*   - renderGraph: the layout of the built graph and its drawing;         *)
(*   - the effect that fetches the graph data, with its calls in flight;   *)
(* and of handleSubmit of the main component (src/frontend/src/App.jsx).   *)
(*                                                                         *)
(* Representation.                                                         *)
(*   A JavaScript string is a sequence of tokens; "." and "entity_" and    *)
(*   "_" are tokens of their own, so that split('.'), startsWith and the   *)
(*   template `entity_${type}_${entity}` are computed on the sequence.     *)
(*   The value undefined is the one-token sequence Undefined (also the key *)
(*   JavaScript uses when undefined indexes an object).                    *)
(*   A probability p is the integer 10*p, a weight w is the integer 100*w. *)
(*   A coordinate is an integer number of thousandths of a pixel.          *)
(*   A radius is an integer number of tenths of a pixel, a stroke width    *)
(*   an integer number of hundredths of a pixel.                           *)
(***************************************************************************)
EXTENDS Integers, Sequences, FiniteSets, TLC

VARIABLES
    predictions,   \* the predictions prop of GraphViewer
    graphData,     \* useState(null): the stored graph data
    loading,       \* useState(false)
    error,         \* useState(null): TRUE when an error message is stored
    view,          \* what the last run of the component body returned
    lnodes,        \* calculateNodePositions: argument nodes (their ids)
    ledges,        \* calculateNodePositions: argument edges
    lwidth,        \* calculateNodePositions: argument width
    lheight,       \* calculateNodePositions: argument height
    positions,     \* calculateNodePositions: the positions object
    iter,          \* calculateNodePositions: the loop counter
    lpc,           \* calculateNodePositions: "idle", "loop", "returned", "threw"
    previous,      \* what the call before this one returned for the same arguments
    drawn,         \* renderGraph: the radius of each circle and the width of each line
    inflight,      \* the calls of fetchGraphData whose fetch has not settled
    started,       \* how many calls of fetchGraphData were made
    effectDue,     \* the body ran with new predictions and useEffect has not run yet
    stored,        \* the call that settled last, how it ended, and the call that wrote graphData last
    caseText,      \* App: useState('')
    appLoading,    \* App: useState(false), the loading state of the main component
    activeTab,     \* App: useState('input')
    request,       \* App: POST /api/predict: "none", "pending", or how the last one ended
    lastAlert      \* App: the last message handleSubmit gave to alert

evars == <<inflight, started, effectDue, stored>>
avars == <<caseText, appLoading, activeTab, request, lastAlert>>
cvars == <<predictions, graphData, loading, error, view, drawn, evars, avars>>
lvars == <<lnodes, ledges, lwidth, lheight, positions, iter, lpc, previous>>
vars == <<predictions, graphData, loading, error, view,
          lnodes, ledges, lwidth, lheight, positions, iter, lpc, previous,
          drawn, inflight, started, effectDue, stored,
          caseText, appLoading, activeTab, request, lastAlert>>

---------------------------------------------------------------------------
(* Strings and optional values *)

Undefined == <<"undefined">>
EmptyString == <<>>

\* JavaScript truthiness of a string-or-undefined value
Truthy(s) == s # Undefined /\ s # EmptyString

\* An absent (undefined or null) list, and a present one
None == [def |-> FALSE]
Some(v) == [def |-> TRUE, val |-> v]
\* (list || [])
OrEmpty(o) == IF o.def THEN o.val ELSE <<>>

\* An undefined probability; a probability that is present is 0..10
NoProb == 0 - 1
\* The weight NaN (undefined * 0.8) and an absent weight
NaNWeight == 0 - 2
NoWeight == 0 - 1

Min(a, b) == IF a < b THEN a ELSE b
Max(a, b) == IF a > b THEN a ELSE b

\* array.slice(0, n)
Slice(s, n) == SubSeq(s, 1, Min(n, Len(s)))

\* id.split('.').length
DotIdx(s) == {i \in DOMAIN s : s[i] = "."}
SplitLength(s) == Cardinality(DotIdx(s)) + 1

LastDot(s) == CHOOSE i \in DotIdx(s) : \A j \in DotIdx(s) : j <= i

\* parts.slice(0, -1).join('.'), for a string with at least one '.'
ParentCode(s) == SubSeq(s, 1, LastDot(s) - 1)

\* id.startsWith('entity_')
StartsWithEntity(s) == Len(s) >= 1 /\ s[1] = "entity_"

\* type.includes('diseases')
Includes(s, tok) == \E i \in DOMAIN s : s[i] = tok

\* `entity_${type}_${entity}` and `entity_${type}`
EntityId(type, entity) == <<"entity_", type, "_", entity>>
EntityType(type) == <<"entity_", type>>

IcdType == <<"icd">>

\* array.find(n => n.id === id) finds something
HasId(nodes, id) == \E i \in DOMAIN nodes : nodes[i].id = id


---------------------------------------------------------------------------
(* The graph builder: the body of GraphViewer, lines 232-353 and 489-571 *)

\* One ICD node per prediction (lines 197-203 and 280-286)
IcdNode(pred) ==
    [id |-> pred.code,
     label |-> IF Truthy(pred.description) THEN pred.description ELSE pred.code,
     type |-> IcdType,
     level |-> SplitLength(pred.code),
     probability |-> pred.probability]

\* The same with slice(0, 3), the cut-off of the entity edges
TopThreePredictionNodes(preds) ==
    [i \in 1..Min(3, Len(preds)) |-> IcdNode(preds[i])]

\* (predictions.icdPredictions || []).slice(0, 5).map(...)
TopPredictionNodes(preds) ==
    [i \in 1..Min(5, Len(preds)) |-> IcdNode(preds[i])]

\* pred.code.split('.') raises a TypeError when pred.code is undefined
TopPredictionThrows(preds) ==
    \E i \in 1..Min(5, Len(preds)) : preds[i].code = Undefined

\* The entity node pushed for one label (lines 300-306 and 496-503)
EntityNode(type, entity) ==
    [id |-> EntityId(type, entity),
     label |-> <<entity>>,
     type |-> EntityType(type),
     level |-> 0,
     probability |-> NoProb]

\* Object.entries(entities).forEach(([type, entities]) =>
\*   (entities || []).slice(0, 3).forEach(entity => ...)): the nodes in the
\* order in which the two loops visit the labels
RECURSIVE EntityCandidates(_)
EntityCandidates(groups) ==
    IF groups = <<>> THEN <<>>
    ELSE LET labs == Slice(OrEmpty(Head(groups).labels), 3)
         IN  [i \in 1..Len(labs) |-> EntityNode(Head(groups).type, labs[i])]
             \o EntityCandidates(Tail(groups))

\* fallbackNodes.push(...) for every label, with no test (lines 297-309)
PushAll(nodes, cands) == nodes \o cands

\* if (!allNodes.find(n => n.id === nodeId)) allNodes.push(...) (lines 497-504)
RECURSIVE PushIfAbsent(_, _)
PushIfAbsent(nodes, cands) ==
    IF cands = <<>> THEN nodes
    ELSE PushIfAbsent(IF HasId(nodes, Head(cands).id)
                      THEN nodes
                      ELSE Append(nodes, Head(cands)),
                      Tail(cands))

\* (probability || 0.5) as a weight: undefined and 0 are both falsy
ProbOrHalf(p) == IF p = NoProb \/ p = 0 THEN 50 ELSE p * 10

\* predictions?.icdPredictions?.find(p => p.code === id)?.probability
PredProbability(preds, id) ==
    IF \E i \in DOMAIN preds : preds[i].code = id
    THEN preds[CHOOSE i \in DOMAIN preds :
                 /\ preds[i].code = id
                 /\ \A j \in DOMAIN preds : preds[j].code = id => i <= j].probability
    ELSE NoProb

\* allEdges.find(e => e.source === s && e.target === t) finds something
HasEdge(edges, s, t) ==
    \E i \in DOMAIN edges : edges[i].source = s /\ edges[i].target = t

\* Lines 312-326: the hierarchy edges of the synthesized graph
RECURSIVE FallbackHierarchy(_, _)
FallbackHierarchy(gnodes, i) ==
    IF i > Len(gnodes) THEN <<>>
    ELSE LET node == gnodes[i]
             add == /\ SplitLength(node.id) > 1
                    /\ HasId(gnodes, ParentCode(node.id))
         IN  (IF add
              THEN <<[source |-> ParentCode(node.id),
                      target |-> node.id,
                      type |-> "parent-child",
                      weight |-> ProbOrHalf(node.probability)]>>
              ELSE <<>>)
             \o FallbackHierarchy(gnodes, i + 1)

\* Lines 513-532: the hierarchy edges added to the external graph's edges
RECURSIVE ExternalHierarchy(_, _, _, _)
ExternalHierarchy(gnodes, i, edges, preds) ==
    IF i > Len(gnodes) THEN edges
    ELSE LET node == gnodes[i]
             add == /\ Truthy(node.id)
                    /\ ~StartsWithEntity(node.id)
                    /\ SplitLength(node.id) > 1
                    /\ HasId(gnodes, ParentCode(node.id))
                    /\ ~HasEdge(edges, ParentCode(node.id), node.id)
         IN  ExternalHierarchy(gnodes, i + 1,
                 IF add
                 THEN Append(edges,
                        [source |-> ParentCode(node.id),
                         target |-> node.id,
                         type |-> "parent-child",
                         weight |-> ProbOrHalf(PredProbability(preds, node.id))])
                 ELSE edges,
                 preds)

\* probability * 0.8 and probability * 0.6; undefined * k is NaN
Times(p, k) == IF p = NoProb THEN NaNWeight ELSE p * k

\* The same with the two factors exchanged
EntityWeightSwapped(type, p) ==
    IF Includes(type, "diseases") THEN Times(p, 6)
    ELSE IF Includes(type, "symptoms") THEN Times(p, 8)
    ELSE 50

\* The same without the two factors: the probability itself
EntityWeightUnscaled(type, p) ==
    IF Includes(type, "diseases") THEN Times(p, 10)
    ELSE IF Includes(type, "symptoms") THEN Times(p, 10)
    ELSE 50

\* Lines 334-339 and 542-547: the weight of an entity-icd edge
EntityWeight(type, p) ==
    IF Includes(type, "diseases") THEN Times(p, 8)
    ELSE IF Includes(type, "symptoms") THEN Times(p, 6)
    ELSE 50

\* Lines 331-347 and 538-556: the edges pushed for one entity node
RECURSIVE EdgesOfEntity(_, _, _, _)
EdgesOfEntity(nodes, entityNode, top, j) ==
    IF j > Len(top) THEN <<>>
    ELSE (IF HasId(nodes, top[j].code)
          THEN <<[source |-> entityNode.id,
                  target |-> top[j].code,
                  type |-> "entity-icd",
                  weight |-> EntityWeight(entityNode.type, top[j].probability)]>>
          ELSE <<>>)
         \o EdgesOfEntity(nodes, entityNode, top, j + 1)

\* The same with slice(0, 5), the cut-off of the ICD nodes
RECURSIVE EntityIcdEdgesTopFive(_, _, _)
EntityIcdEdgesTopFive(nodes, preds, i) ==
    IF i > Len(nodes) THEN <<>>
    ELSE (IF StartsWithEntity(nodes[i].id)
          THEN EdgesOfEntity(nodes, nodes[i], Slice(preds, 5), 1)
          ELSE <<>>)
         \o EntityIcdEdgesTopFive(nodes, preds, i + 1)

\* Lines 329-349 and 535-558: nodes.forEach(entityNode => ...)
RECURSIVE EntityIcdEdges(_, _, _)
EntityIcdEdges(nodes, preds, i) ==
    IF i > Len(nodes) THEN <<>>
    ELSE (IF StartsWithEntity(nodes[i].id)
          THEN EdgesOfEntity(nodes, nodes[i], Slice(preds, 3), 1)
          ELSE <<>>)
         \o EntityIcdEdges(nodes, preds, i + 1)

\* The TypeErrors of that loop: entityNode.id.startsWith on an undefined id,
\* entityNode.type.includes on an undefined type
EntityLoopThrows(nodes, preds) ==
    \E i \in DOMAIN nodes :
        \/ nodes[i].id = Undefined
        \/ /\ StartsWithEntity(nodes[i].id)
           /\ nodes[i].type = Undefined
           /\ \E j \in 1..Min(3, Len(preds)) : HasId(nodes, preds[j].code)

NullGraph == [isNull |-> TRUE, nodes |-> None, edges |-> None, entities |-> None]
NullPredictions == [isNull |-> TRUE, icdPredictions |-> None, entities |-> None]

NoGraphView(kind) == [kind |-> kind, path |-> "none", nodes |-> <<>>, edges |-> <<>>]
GraphView(path, nodes, edges) ==
    [kind |-> "graph", path |-> path, nodes |-> nodes, edges |-> edges]

\* Lines 278-352: the graph synthesized from the prediction result
FallbackBuild(pr) ==
    LET preds == OrEmpty(pr.icdPredictions)
        icd == TopPredictionNodes(preds)
        fallbackNodes == IF pr.entities.def
                         THEN PushAll(icd, EntityCandidates(pr.entities.val))
                         ELSE icd
        fallbackEdges == FallbackHierarchy(icd, 1)
                         \o EntityIcdEdges(fallbackNodes, preds, 1)
    IN  IF TopPredictionThrows(preds) THEN NoGraphView("threw")
        ELSE IF EntityLoopThrows(fallbackNodes, preds) THEN NoGraphView("threw")
        ELSE GraphView("fallback", fallbackNodes, fallbackEdges)

\* The same with the entity-icd edges tested against the edges at hand, as
\* line 520 tests the hierarchy edges
ExternalBuildDeduplicated(gd, pr) ==
    LET preds == IF pr.isNull THEN <<>> ELSE OrEmpty(pr.icdPredictions)
        allNodes == IF gd.entities.def /\ ~pr.isNull
                    THEN PushIfAbsent(gd.nodes.val, EntityCandidates(gd.entities.val))
                    ELSE gd.nodes.val
        hier == ExternalHierarchy(gd.nodes.val, 1, OrEmpty(gd.edges), preds)
        allEdges == hier \o SelectSeq(EntityIcdEdges(allNodes, preds, 1),
                                      LAMBDA e : ~HasEdge(hier, e.source, e.target))
    IN  IF EntityLoopThrows(allNodes, preds) THEN NoGraphView("threw")
        ELSE GraphView("external", allNodes, allEdges)

\* Lines 489-571: the graph built on the stored graph data
ExternalBuild(gd, pr) ==
    LET preds == IF pr.isNull THEN <<>> ELSE OrEmpty(pr.icdPredictions)
        allNodes == IF gd.entities.def /\ ~pr.isNull
                    THEN PushIfAbsent(gd.nodes.val, EntityCandidates(gd.entities.val))
                    ELSE gd.nodes.val
        hier == ExternalHierarchy(gd.nodes.val, 1, OrEmpty(gd.edges), preds)
        allEdges == hier \o EntityIcdEdges(allNodes, preds, 1)
    IN  IF EntityLoopThrows(allNodes, preds) THEN NoGraphView("threw")
        ELSE GraphView("external", allNodes, allEdges)

\* The component body: what GraphViewer returns for its props and state
Render(gd, pr, ld, err) ==
    IF ld THEN NoGraphView("loading")
    ELSE IF err /\ gd.isNull THEN NoGraphView("error")
    ELSE IF gd.isNull \/ ~gd.nodes.def \/ Len(gd.nodes.val) = 0
    THEN IF pr.isNull \/ ~pr.icdPredictions.def \/ Len(pr.icdPredictions.val) = 0
         THEN NoGraphView("empty")
         ELSE FallbackBuild(pr)
    ELSE ExternalBuild(gd, pr)

\* A catch block that stores the message only
CatchGraphDataAbsent(pr) == NullGraph

\* Lines 195-208: the graph data stored by the catch block of fetchGraphData
CatchGraphData(pr) ==
    [isNull |-> FALSE,
     nodes |-> Some(TopPredictionNodes(OrEmpty(pr.icdPredictions))),
     edges |-> Some(<<>>),
     entities |-> IF pr.entities.def THEN pr.entities ELSE Some(<<>>)]

\* The catch block itself raises when a top-5 prediction has no code
CatchThrows(pr) == TopPredictionThrows(OrEmpty(pr.icdPredictions))


---------------------------------------------------------------------------
(* The inputs: prediction results and the bodies the graph API may return *)

MaxFree == 2      \* ranked lists of any predictions up to this length
MaxPreds == 6     \* longest ranked list
MaxLabels == 4    \* longest label list of an entity category
MaxExtNodes == 2  \* longest node list of an API graph

C410 == <<"410">>
C4107 == <<"410", ".", "7">>
C41071 == <<"410", ".", "71">>
C4280 == <<"428", ".", "0">>

Pred(code, description, probability) ==
    [code |-> code, description |-> description, probability |-> probability]

\* Predictions for the short lists: well formed ones, one without a
\* description, one without a code
PredPool ==
    {Pred(C41071, <<"d1">>, 9), Pred(C4107, <<"d2">>, 8), Pred(C410, Undefined, 7),
     Pred(Undefined, <<"d3">>, 5)}

\* Predictions for the long lists, taken in this order from any start
PredCycle ==
    <<Pred(C41071, <<"d1">>, 9), Pred(C4107, <<"d2">>, 8),
      Pred(C410, <<"d0">>, 7), Pred(C4280, <<"d4">>, 6)>>

SeqsUpTo(S, n) == UNION {[1..k -> S] : k \in 0..n}

PredLists ==
    SeqsUpTo(PredPool, MaxFree)
    \cup {[i \in 1..n |-> PredCycle[((start + i) % Len(PredCycle)) + 1]] :
            n \in (MaxFree + 1)..MaxPreds, start \in 0..(Len(PredCycle) - 1)}

LabelPool == <<"MI", "HTN", "AF", "CHF">>

\* Label lists: all different labels in a row, or one label repeated
LabelLists ==
    {[i \in 1..n |-> LabelPool[(((i - 1) * stride) % Len(LabelPool)) + 1]] :
        n \in 0..MaxLabels, stride \in {0, 1}}

Group(type, labels) == [type |-> type, labels |-> labels]

\* The entities of the worked example of the specification
ExampleEntities ==
    <<Group("diseases", Some(<<"MI">>)), Group("symptoms", Some(<<>>)),
      Group("procedures", Some(<<>>)), Group("medications", Some(<<>>))>>

EntityMaps ==
    {<<Group("diseases", Some(l)), Group("symptoms", Some(<<"pain">>)),
       Group("procedures", Some(<<"PCI">>)), Group("medications", None)>> :
        l \in LabelLists}
    \cup {ExampleEntities}

PredictionResult(preds, entities) ==
    [isNull |-> FALSE, icdPredictions |-> preds, entities |-> entities]

\* The worked example of the specification
ExamplePrediction ==
    PredictionResult(
        Some(<<Pred(C41071, <<"d1">>, 9), Pred(C4107, <<"d2">>, 8)>>),
        Some(ExampleEntities))

PredictionResults ==
    {PredictionResult(Some(l), e) :
        l \in PredLists, e \in {None} \cup {Some(m) : m \in EntityMaps}}
    \cup {PredictionResult(None, None)}

ExtNode(id, type, probability) ==
    [id |-> id, label |-> id, type |-> type, level |-> 0, probability |-> probability]

\* Nodes of an API graph: ICD codes, an entity that the prediction also
\* names, a node without an id, an entity node without a type
ExtNodePool ==
    {ExtNode(C410, IcdType, NoProb), ExtNode(C4107, IcdType, 3),
     ExtNode(EntityId("diseases", "MI"), EntityType("diseases"), NoProb),
     ExtNode(Undefined, IcdType, NoProb),
     ExtNode(EntityId("symptoms", "pain"), Undefined, NoProb)}

Edge(source, target, type, weight) ==
    [source |-> source, target |-> target, type |-> type, weight |-> weight]

\* What an API graph holds besides its nodes: nothing; a hierarchy edge;
\* an entity edge and entities; an edge to an id that no node has
ExtShapes ==
    {[edges |-> None, entities |-> None],
     [edges |-> Some(<<Edge(C410, C4107, "parent-child", 30)>>),
      entities |-> None],
     [edges |-> Some(<<Edge(EntityId("diseases", "MI"), C4107, "related", NoWeight)>>),
      entities |-> Some(<<Group("diseases", Some(<<"MI", "HTN">>))>>)],
     [edges |-> Some(<<Edge(C4107, <<"999">>, "related", 40)>>),
      entities |-> Some(<<Group("diseases", Some(<<"MI", "HTN">>))>>)]}

\* The bodies of a successful response of GET /api/graph/visualize
ExternalGraphs ==
    {[isNull |-> FALSE, nodes |-> n, edges |-> sh.edges, entities |-> sh.entities] :
        n \in {None} \cup {Some(l) : l \in SeqsUpTo(ExtNodePool, MaxExtNodes)},
        sh \in ExtShapes}

---------------------------------------------------------------------------
(* The builder as a function of the component's state *)

NoView == NoGraphView("none")

\* Nothing is drawn
NoDrawing == [radii |-> <<>>, widths |-> <<>>]

\* No call of fetchGraphData was made
NoStore == [settled |-> 0, outcome |-> "none", writer |-> 0]

EffectIdle ==
    /\ inflight = {}
    /\ started = 0
    /\ effectDue = FALSE
    /\ stored = NoStore

\* The main component as constructed (App.jsx lines 24-26)
AppIdle ==
    /\ caseText = EmptyString
    /\ appLoading = FALSE
    /\ activeTab = "input"
    /\ request = "none"
    /\ lastAlert = "none"

\* Lines 490 and 510: allNodes and allEdges are copies of the lists of the
\* stored graph data ([...graphData.nodes]), and the synthesized lists are
\* new arrays, so that every push goes to a list the state does not hold
StoredAfterBuildAliased(gd, built) ==
    IF built.path = "external" THEN [gd EXCEPT !.nodes = Some(built.nodes)] ELSE gd

StoredAfterBuild(gd, built) == gd

LayoutIdle ==
    /\ lnodes = <<>>
    /\ ledges = <<>>
    /\ lwidth = 0
    /\ lheight = 0
    /\ positions = <<>>
    /\ iter = 0
    /\ lpc = "idle"
    /\ previous = <<>>

\* A state of the mounted component in which no fetch is pending: the graph
\* data is still null, or was stored by the catch block, or is a response
InitBuild ==
    /\ predictions \in PredictionResults
    /\ \/ /\ graphData = NullGraph
          /\ error = CatchThrows(predictions)
       \/ /\ ~CatchThrows(predictions)
          /\ graphData = CatchGraphData(predictions)
          /\ error = TRUE
       \/ /\ graphData \in ExternalGraphs
          /\ error = FALSE
    /\ loading = FALSE
    /\ view = NoView
    /\ drawn = NoDrawing
    /\ EffectIdle
    /\ AppIdle
    /\ LayoutIdle

\* The component body runs
RenderStep ==
    /\ view = NoView
    /\ view' = Render(graphData, predictions, loading, error)
    /\ graphData' = StoredAfterBuild(graphData, view')
    /\ UNCHANGED <<predictions, loading, error, drawn, evars, avars>>
    /\ UNCHANGED lvars

NextBuild == RenderStep

SpecBuild == InitBuild /\ [][NextBuild]_vars


---------------------------------------------------------------------------
(* calculateNodePositions, lines 5-127 *)

\* Coordinates and forces are kept in thousandths of a pixel (Unit to the
\* pixel); a difference of coordinates enters a distance and a direction
\* in tenths of a pixel (Grain thousandths), so that its square is a number
\* TLC can hold
Unit == 1000
Grain == 100

\* Division rounding toward zero, so that x and -x round alike
TDiv(a, b) == IF a >= 0 THEN a \div b ELSE 0 - ((0 - a) \div b)

\* The integer part of Math.sqrt(n)
RECURSIVE SqrtFrom(_, _)
SqrtFrom(n, g) ==
    LET h == (g + n \div g) \div 2
    IN  IF h >= g THEN g ELSE SqrtFrom(n, h)
ISqrt(n) == IF n < 2 THEN n ELSE SqrtFrom(n, n \div 2)

\* 1000 * cos(2*pi*k/n) and 1000 * sin(2*pi*k/n), for n = 1..6
CosTable ==
    <<  <<1000>>,
        <<1000, -1000>>,
        <<1000, -500, -500>>,
        <<1000, 0, -1000, 0>>,
        <<1000, 309, -809, -809, 309>>,
        <<1000, 500, -500, -1000, -500, 500>> >>
SinTable ==
    <<  <<0>>,
        <<0, 0>>,
        <<0, 866, -866>>,
        <<0, 1000, 0, -1000>>,
        <<0, 951, 588, -588, -951>>,
        <<0, 866, 866, 0, -866, -866>> >>

IdSet(nodes) == {nodes[i] : i \in DOMAIN nodes}

\* Lines 15-22: degrees[id], the number of edge ends that name id
Degree(edges, id) ==
    Cardinality({i \in DOMAIN edges : edges[i].source = id})
    + Cardinality({i \in DOMAIN edges : edges[i].target = id})

\* The same scan with >= for >: the last node of the largest degree
RECURSIVE CenterScanLast(_, _, _, _, _)
CenterScanLast(nodes, edges, i, centerNodeId, maxDegree) ==
    IF i > Len(nodes) THEN centerNodeId
    ELSE IF Degree(edges, nodes[i]) >= maxDegree
         THEN CenterScanLast(nodes, edges, i + 1, nodes[i], Degree(edges, nodes[i]))
         ELSE CenterScanLast(nodes, edges, i + 1, centerNodeId, maxDegree)

\* Lines 25-32: the scan for the center node, from node i on
RECURSIVE CenterScan(_, _, _, _, _)
CenterScan(nodes, edges, i, centerNodeId, maxDegree) ==
    IF i > Len(nodes) THEN centerNodeId
    ELSE IF Degree(edges, nodes[i]) > maxDegree
         THEN CenterScan(nodes, edges, i + 1, nodes[i], Degree(edges, nodes[i]))
         ELSE CenterScan(nodes, edges, i + 1, centerNodeId, maxDegree)

\* let centerNodeId = nodes[0]?.id; ...
CenterNodeId(nodes, edges) ==
    CenterScan(nodes, edges, 1, IF nodes = <<>> THEN Undefined ELSE nodes[1], 0)

\* nodes.filter(n => n.id !== centerNodeId)
OtherNodes(nodes, center) == SelectSeq(nodes, LAMBDA id : id # center)

CenterX(width) == (width * Unit) \div 2
CenterY(height) == (height * Unit) \div 2
\* Math.min(width, height) * 0.4
Radius(width, height) == (Min(width, height) * Unit * 4) \div 10

\* Lines 47-53: the place of the index-th of n other nodes
CirclePoint(width, height, n, index) ==
    [x |-> CenterX(width) + TDiv(Radius(width, height) * CosTable[n][index], 1000),
     y |-> CenterY(height) + TDiv(Radius(width, height) * SinTable[n][index], 1000)]

\* The index whose assignment to positions[id] is the last one
LastIndex(others, id) ==
    CHOOSE i \in DOMAIN others :
        others[i] = id /\ \A j \in DOMAIN others : others[j] = id => j <= i

\* The same without line 41, the assignment to positions[centerNodeId]
InitialPositionsNoCenter(nodes, edges, width, height) ==
    LET center == CenterNodeId(nodes, edges)
        others == OtherNodes(nodes, center)
    IN  [id \in IdSet(others) |->
            CirclePoint(width, height, Len(others), LastIndex(others, id))]

\* The same with a warm start: a later call begins from the positions that
\* the call before it returned
InitialPositionsWarm(nodes, edges, width, height) ==
    IF DOMAIN previous # {} THEN previous
    ELSE LET center == CenterNodeId(nodes, edges)
             others == OtherNodes(nodes, center)
         IN  [id \in {center} \cup IdSet(others) |->
                 IF id = center
                 THEN [x |-> CenterX(width), y |-> CenterY(height)]
                 ELSE CirclePoint(width, height, Len(others), LastIndex(others, id))]

\* Lines 6-53: the positions object before the first iteration. The center
\* key is written even when nodes is empty (centerNodeId is then undefined)
InitialPositions(nodes, edges, width, height) ==
    LET center == CenterNodeId(nodes, edges)
        others == OtherNodes(nodes, center)
    IN  [id \in {center} \cup IdSet(others) |->
            IF id = center
            THEN [x |-> CenterX(width), y |-> CenterY(height)]
            ELSE CirclePoint(width, height, Len(others), LastIndex(others, id))]

\* A difference of coordinates, in tenths of a pixel
Coarse(d) == TDiv(d, Grain)

\* Math.sqrt(dx * dx + dy * dy) || 1, in tenths of a pixel: 1 pixel when
\* the two points are the same, and never 0 when they are not
Distance(dx, dy) ==
    IF dx = 0 /\ dy = 0 THEN Unit \div Grain
    ELSE Max(1, ISqrt(Coarse(dx) * Coarse(dx) + Coarse(dy) * Coarse(dy)))

\* The same with a target distance of 100
AttractionForceShort(distance) ==
    TDiv((distance * Grain - 100 * Unit) * 5, 1000)

\* Lines 72-73: (distance - 200) * 0.005
AttractionForce(distance) ==
    TDiv((distance * Grain - 200 * Unit) * 5, 1000)

\* The same without the branch of line 93: 2000 / distance^2 at any distance
RepulsionForceWeak(distance) ==
    (2000 * Unit * (Unit \div Grain) * (Unit \div Grain)) \div (distance * distance)

\* Lines 92-106: (120 - distance) * 2 below 120, else 2000 / distance^2
RepulsionForce(distance) ==
    IF distance * Grain < 120 * Unit
    THEN (120 * Unit - distance * Grain) * 2
    ELSE (2000 * Unit * (Unit \div Grain) * (Unit \div Grain)) \div (distance * distance)

\* (dx / distance) * force
Along(d, distance, force) == TDiv(Coarse(d) * force, distance)

Zero == [x |-> 0, y |-> 0]

\* Lines 63-79: the forces after the edges from edge i on
RECURSIVE AttractFrom(_, _, _, _)
AttractFrom(edges, i, pos, forces) ==
    IF i > Len(edges) THEN forces
    ELSE LET s == edges[i].source
             t == edges[i].target
         IN  IF s \notin DOMAIN pos \/ t \notin DOMAIN pos
             THEN AttractFrom(edges, i + 1, pos, forces)
             ELSE LET dx == pos[t].x - pos[s].x
                      dy == pos[t].y - pos[s].y
                      distance == Distance(dx, dy)
                      force == AttractionForce(distance)
                      f1 == [forces EXCEPT
                                ![s] = [x |-> @.x + Along(dx, distance, force),
                                        y |-> @.y + Along(dy, distance, force)]]
                      f2 == [f1 EXCEPT
                                ![t] = [x |-> @.x - Along(dx, distance, force),
                                        y |-> @.y - Along(dy, distance, force)]]
                  IN  AttractFrom(edges, i + 1, pos, f2)

\* forces[edge.source] is undefined when the key is positioned but is no node
AttractThrows(edges, pos, nodes) ==
    \E i \in DOMAIN edges :
        /\ edges[i].source \in DOMAIN pos
        /\ edges[i].target \in DOMAIN pos
        /\ \/ edges[i].source \notin IdSet(nodes)
           \/ edges[i].target \notin IdSet(nodes)

\* Lines 88-106: the forces after node1 = nodes[i] met node2 = nodes[j]
RepelPair(nodes, i, j, pos, forces) ==
    LET a == nodes[i]
        b == nodes[j]
        dx == pos[b].x - pos[a].x
        dy == pos[b].y - pos[a].y
        distance == Distance(dx, dy)
        force == RepulsionForce(distance)
        f1 == [forces EXCEPT
                  ![a] = [x |-> @.x - Along(dx, distance, force),
                          y |-> @.y - Along(dy, distance, force)]]
    IN  [f1 EXCEPT
            ![b] = [x |-> @.x + Along(dx, distance, force),
                    y |-> @.y + Along(dy, distance, force)]]

\* Lines 82-108: nodes.forEach((node1, i) => nodes.slice(i + 1).forEach(...))
RECURSIVE RepelFrom(_, _, _, _, _)
RepelFrom(nodes, i, j, pos, forces) ==
    IF i > Len(nodes) THEN forces
    ELSE IF j > Len(nodes) THEN RepelFrom(nodes, i + 1, i + 2, pos, forces)
    ELSE IF nodes[i] \notin DOMAIN pos \/ nodes[j] \notin DOMAIN pos
    THEN RepelFrom(nodes, i, j + 1, pos, forces)
    ELSE RepelFrom(nodes, i, j + 1, pos, RepelPair(nodes, i, j, pos, forces))

\* The same without Math.max(margin, ...)
ClampUpperOnly(v, dimension) == Min((dimension - 80) * Unit, v)

\* Lines 119-122: Math.max(margin, Math.min(dimension - margin, v))
Clamp(v, dimension) == Max(80 * Unit, Min((dimension - 80) * Unit, v))

\* pos.x += force.x * 0.1
Advance(v, f) == v + TDiv(f, 10)

\* The same with the repulsion added again from the positions at hand after
\* each move: the accumulators are not reset and see the moves of the pass
RECURSIVE ApplyFromSequential(_, _, _, _, _, _)
ApplyFromSequential(nodes, i, pos, forces, width, height) ==
    IF i > Len(nodes) THEN pos
    ELSE IF nodes[i] \notin DOMAIN pos
    THEN ApplyFromSequential(nodes, i + 1, pos, forces, width, height)
    ELSE LET moved == [pos EXCEPT ![nodes[i]] =
                          [x |-> Clamp(Advance(@.x, forces[nodes[i]].x), width),
                           y |-> Clamp(Advance(@.y, forces[nodes[i]].y), height)]]
         IN  ApplyFromSequential(nodes, i + 1, moved,
                 RepelFrom(nodes, 1, 2, moved, forces), width, height)

\* Lines 111-123: the positions after the nodes from node i on were moved
RECURSIVE ApplyFrom(_, _, _, _, _, _)
ApplyFrom(nodes, i, pos, forces, width, height) ==
    IF i > Len(nodes) THEN pos
    ELSE IF nodes[i] \notin DOMAIN pos
    THEN ApplyFrom(nodes, i + 1, pos, forces, width, height)
    ELSE ApplyFrom(nodes, i + 1,
            [pos EXCEPT ![nodes[i]] =
                [x |-> Clamp(Advance(@.x, forces[nodes[i]].x), width),
                 y |-> Clamp(Advance(@.y, forces[nodes[i]].y), height)]],
            forces, width, height)

\* Lines 57-108: the forces of one iteration
Forces(nodes, edges, pos) ==
    RepelFrom(nodes, 1, 2, pos,
        AttractFrom(edges, 1, pos, [id \in IdSet(nodes) |-> Zero]))

\* Lines 56-124: one iteration of the loop
Iterate(nodes, edges, pos, width, height) ==
    ApplyFrom(nodes, 1, pos, Forces(nodes, edges, pos), width, height)


---------------------------------------------------------------------------
(* calculateNodePositions as a function of its arguments *)

MaxLayoutNodes == 3   \* longest node list given to the layout

NoPositions == [id \in {} |-> Zero]

LayoutIds == {C410, C4107, EntityId("diseases", "MI")}

LEdge(source, target) == [source |-> source, target |-> target]

\* Edge lists: none; one edge; two edges into one node; a repeated edge;
\* an edge to an id that is no node; an edge without source and target
LayoutEdgeLists ==
    {<<>>,
     <<LEdge(C410, C4107)>>,
     <<LEdge(C410, C4107), LEdge(EntityId("diseases", "MI"), C4107)>>,
     <<LEdge(EntityId("diseases", "MI"), C410), LEdge(EntityId("diseases", "MI"), C410)>>,
     <<LEdge(C4107, <<"999">>)>>,
     <<LEdge(Undefined, Undefined)>>}

\* Canvas sizes: the default of the component, two smaller ones, the
\* smallest with room between the margins, one with a single pixel of
\* room, one without room, and degenerate ones
Canvases ==
    {<<800, 600>>, <<400, 300>>, <<290, 290>>, <<160, 160>>, <<161, 161>>,
     <<100, 100>>, <<0, 600>>, <<0 - 100, 200>>}

ComponentIdle ==
    /\ predictions = NullPredictions
    /\ graphData = NullGraph
    /\ loading = FALSE
    /\ error = FALSE
    /\ view = NoView
    /\ drawn = NoDrawing
    /\ EffectIdle
    /\ AppIdle

InitLayout ==
    /\ lnodes \in SeqsUpTo(LayoutIds, MaxLayoutNodes)
    /\ ledges \in LayoutEdgeLists
    /\ \E c \in Canvases : lwidth = c[1] /\ lheight = c[2]
    /\ positions = NoPositions
    /\ iter = 0
    /\ lpc = "idle"
    /\ previous = NoPositions
    /\ ComponentIdle

\* Lines 6-53: the call, up to the initial placement
LayoutStart ==
    /\ lpc = "idle"
    /\ positions' = InitialPositions(lnodes, ledges, lwidth, lheight)
    /\ iter' = 0
    /\ lpc' = "loop"
    /\ UNCHANGED <<lnodes, ledges, lwidth, lheight, previous>>
    /\ UNCHANGED cvars

\* Lines 56-124: one pass of for (let iter = 0; iter < 50; iter++)
LayoutIterate ==
    /\ lpc = "loop"
    /\ iter < 50
    /\ ~AttractThrows(ledges, positions, lnodes)
    /\ positions' = Iterate(lnodes, ledges, positions, lwidth, lheight)
    /\ iter' = iter + 1
    /\ UNCHANGED <<lnodes, ledges, lwidth, lheight, lpc, previous>>
    /\ UNCHANGED cvars

\* Line 75: the TypeError leaves the function
LayoutThrow ==
    /\ lpc = "loop"
    /\ iter < 50
    /\ AttractThrows(ledges, positions, lnodes)
    /\ lpc' = "threw"
    /\ UNCHANGED <<lnodes, ledges, lwidth, lheight, positions, iter, previous>>
    /\ UNCHANGED cvars

\* The same with a convergence test: the function also returns as soon as
\* a further pass of the loop would move nothing
LayoutReturnConverged ==
    /\ lpc = "loop"
    /\ \/ iter >= 50
       \/ /\ ~AttractThrows(ledges, positions, lnodes)
          /\ Iterate(lnodes, ledges, positions, lwidth, lheight) = positions
    /\ lpc' = "returned"
    /\ UNCHANGED <<lnodes, ledges, lwidth, lheight, positions, iter, previous>>
    /\ UNCHANGED cvars

\* Line 126: return positions
LayoutReturn ==
    /\ lpc = "loop"
    /\ iter >= 50
    /\ lpc' = "returned"
    /\ UNCHANGED <<lnodes, ledges, lwidth, lheight, positions, iter, previous>>
    /\ UNCHANGED cvars

NextLayout == LayoutStart \/ LayoutIterate \/ LayoutThrow \/ LayoutReturn

SpecLayout == InitLayout /\ [][NextLayout]_vars

\* Lines 358-363: the next render calls the function again with the same
\* arguments; what the call before returned is kept for comparison
LayoutAgain ==
    /\ lpc = "returned"
    /\ DOMAIN previous = {}
    /\ previous' = positions
    /\ positions' = NoPositions
    /\ iter' = 0
    /\ lpc' = "idle"
    /\ UNCHANGED <<lnodes, ledges, lwidth, lheight>>
    /\ UNCHANGED cvars

NextLayoutTwice == NextLayout \/ LayoutAgain

SpecLayoutTwice == InitLayout /\ [][NextLayoutTwice]_vars

\* The control flow of the function: the call starts, the loop makes a pass
\* or a TypeError leaves it while iter < 50, and the function returns after
\* that. Every step of NextLayout is one of these, and one of them is
\* possible exactly when a step of NextLayout is
ControlStep ==
    \/ lpc = "idle" /\ lpc' = "loop" /\ iter' = 0
    \/ lpc = "loop" /\ iter < 50 /\ lpc' = "loop" /\ iter' = iter + 1
    \/ lpc = "loop" /\ iter < 50 /\ lpc' = "threw" /\ iter' = iter
    \/ lpc = "loop" /\ iter >= 50 /\ lpc' = "returned" /\ iter' = iter

\* A call that has started keeps running: the function is sequential code
\* that nothing suspends
SpecLayoutFair ==
    InitLayout /\ [][NextLayout]_vars /\ WF_<<lpc, iter>>(ControlStep)


---------------------------------------------------------------------------
(* renderGraph, lines 356-487: layout of the built graph, then the drawing *)

\* A radius is an integer number of tenths of a pixel, a stroke width an
\* integer number of hundredths of a pixel (rounded down)
NotDrawn == 0 - 1

\* Line 164: useState({ width: 800, height: 600 })
Dimensions == <<800, 600>>

\* predictions?.icdPredictions?.find(p => p.code === id) finds something
HasPrediction(pr, id) ==
    /\ ~pr.isNull
    /\ pr.icdPredictions.def
    /\ \E i \in DOMAIN pr.icdPredictions.val : pr.icdPredictions.val[i].code = id

\* Lines 150-159: 20 + icdPred.probability * 20 for a node whose id is not
\* an entity id and is the code of a prediction, 16 for every other node
getNodeSize(node, pr) ==
    IF /\ Truthy(node.id)
       /\ ~StartsWithEntity(node.id)
       /\ HasPrediction(pr, node.id)
    THEN 200 + PredProbability(pr.icdPredictions.val, node.id) * 20
    ELSE 160

\* edge.weight || 0.5: undefined, NaN and 0 are falsy
WeightOrHalf(w) == IF w = NoWeight \/ w = NaNWeight \/ w = 0 THEN 50 ELSE w

RECURSIVE MinOf(_, _)
MinOf(ws, least) ==
    IF ws = <<>> THEN least ELSE MinOf(Tail(ws), Min(Head(ws), least))

RECURSIVE MaxOf(_, _)
MaxOf(ws, most) ==
    IF ws = <<>> THEN most ELSE MaxOf(Tail(ws), Max(Head(ws), most))

\* Line 366: const weights = edges.map(e => e.weight || 0.5)
Weights(edges) == [i \in DOMAIN edges |-> WeightOrHalf(edges[i].weight)]

\* Line 367: Math.min(...weights, 0.1)
MinWeight(edges) == MinOf(Weights(edges), 10)

\* Line 368: Math.max(...weights, 1.0)
MaxWeight(edges) == MaxOf(Weights(edges), 100)

\* Line 369: maxWeight - minWeight || 1
WeightRange(edges) ==
    IF MaxWeight(edges) - MinWeight(edges) = 0 THEN 100
    ELSE MaxWeight(edges) - MinWeight(edges)

\* Lines 407-408: 1 + ((weight - minWeight) / weightRange) * 4
StrokeWidth(edges, i) ==
    100 + (400 * (WeightOrHalf(edges[i].weight) - MinWeight(edges)))
              \div WeightRange(edges)

\* Lines 371-470: a line for every edge whose two ends have a position and
\* a circle for every node that has one
Drawing(nodes, edges, pr, pos) ==
    [radii |-> [i \in DOMAIN nodes |->
                   IF nodes[i].id \in DOMAIN pos
                   THEN getNodeSize(nodes[i], pr) ELSE NotDrawn],
     widths |-> [i \in DOMAIN edges |->
                   IF edges[i].source \in DOMAIN pos /\ edges[i].target \in DOMAIN pos
                   THEN StrokeWidth(edges, i) ELSE NotDrawn]]

\* Responses whose nodes and edges carry a probability and weights
DrawGraphs ==
    {[isNull |-> FALSE,
      nodes |-> Some(<<ExtNode(C410, IcdType, NoProb), ExtNode(C4107, IcdType, 3)>>),
      edges |-> Some(<<Edge(C410, C4107, "parent-child", 30)>>),
      entities |-> None],
     [isNull |-> FALSE,
      nodes |-> Some(<<ExtNode(C4107, IcdType, 3),
                       ExtNode(EntityId("diseases", "MI"), EntityType("diseases"), NoProb)>>),
      edges |-> Some(<<Edge(EntityId("diseases", "MI"), C4107, "related", NoWeight),
                       Edge(C4107, <<"999">>, "related", 5)>>),
      entities |-> Some(<<Group("diseases", Some(<<"MI", "HTN">>))>>)]}

\* The mounted component before its body runs, with no fetch pending
InitDraw ==
    /\ predictions \in
           {PredictionResult(Some(l), e) :
               l \in SeqsUpTo(PredPool, MaxFree), e \in {None, Some(ExampleEntities)}}
    /\ \/ /\ graphData = NullGraph
          /\ error = CatchThrows(predictions)
       \/ /\ ~CatchThrows(predictions)
          /\ graphData = CatchGraphData(predictions)
          /\ error = TRUE
       \/ /\ graphData \in DrawGraphs
          /\ error = FALSE
    /\ loading = FALSE
    /\ view = NoView
    /\ drawn = NoDrawing
    /\ EffectIdle
    /\ AppIdle
    /\ LayoutIdle

\* Lines 356-363 with 6-53: renderGraph hands the built lists and the
\* dimensions to calculateNodePositions, which places the nodes
RenderGraph ==
    /\ view.kind = "graph"
    /\ lpc = "idle"
    /\ drawn = NoDrawing
    /\ lnodes' = [i \in DOMAIN view.nodes |-> view.nodes[i].id]
    /\ ledges' = [i \in DOMAIN view.edges |->
                     LEdge(view.edges[i].source, view.edges[i].target)]
    /\ lwidth' = Dimensions[1]
    /\ lheight' = Dimensions[2]
    /\ positions' = InitialPositions(lnodes', ledges', lwidth', lheight')
    /\ iter' = 0
    /\ lpc' = "loop"
    /\ UNCHANGED previous
    /\ UNCHANGED cvars

\* Lines 365-470: the lines and circles of the returned JSX
DrawStep ==
    /\ view.kind = "graph"
    /\ lpc = "returned"
    /\ drawn = NoDrawing
    /\ drawn' = Drawing(view.nodes, view.edges, predictions, positions)
    /\ UNCHANGED <<predictions, graphData, loading, error, view, evars, avars>>
    /\ UNCHANGED lvars

\* One run of the component body. The TypeError of line 75 needs an edge
\* without ends and an empty node list, and the body calls renderGraph
\* with at least one node
NextDraw == RenderStep \/ RenderGraph \/ LayoutIterate \/ LayoutReturn \/ DrawStep

SpecDraw == InitDraw /\ [][NextDraw]_vars


---------------------------------------------------------------------------
(* The mounted component: useEffect and fetchGraphData, lines 170-217 *)

MaxFetches == 3   \* calls of fetchGraphData in one behaviour

\* The predictions prop: the worked example, another result, a result with
\* an empty list, one whose prediction has no code, and null
ViewerPredictions ==
    {ExamplePrediction,
     PredictionResult(Some(<<Pred(C4280, <<"d4">>, 6)>>), None),
     PredictionResult(Some(<<>>), None),
     PredictionResult(Some(<<Pred(Undefined, <<"d3">>, 5)>>), None),
     NullPredictions}

\* The bodies of a response with status 200: graphs, and one without nodes
ViewerResponses ==
    DrawGraphs
    \cup {[isNull |-> FALSE, nodes |-> Some(<<>>), edges |-> None, entities |-> None]}

Call(id, pr) == [id |-> id, closure |-> pr]

InitViewer ==
    /\ predictions \in ViewerPredictions
    /\ graphData = NullGraph
    /\ loading = FALSE
    /\ error = FALSE
    /\ view = NoView
    /\ drawn = NoDrawing
    /\ EffectIdle
    /\ AppIdle
    /\ LayoutIdle

\* The component is in the tree: its body ran and did not throw
Mounted == view # NoView /\ view.kind # "threw"

\* The first run of the body, with the initial state of lines 163-165; the
\* effect of line 170 is scheduled for after it
Mount ==
    /\ view = NoView
    /\ view' = Render(graphData, predictions, loading, error)
    /\ effectDue' = TRUE
    /\ UNCHANGED <<predictions, graphData, loading, error, drawn>>
    /\ UNCHANGED <<inflight, started, stored>>
    /\ UNCHANGED avars
    /\ UNCHANGED lvars

\* Lines 170-217: the effect runs after a body run with new predictions.
\* With predictions it calls fetchGraphData, which sets loading, clears the
\* error and starts the fetch (lines 172-175); the body runs again
RunEffect ==
    /\ Mounted
    /\ effectDue
    /\ effectDue' = FALSE
    /\ IF predictions.isNull
       THEN UNCHANGED <<inflight, started, loading, error, view>>
       ELSE /\ started' = started + 1
            /\ inflight' = inflight \cup {Call(started + 1, predictions)}
            /\ loading' = TRUE
            /\ error' = FALSE
            /\ view' = Render(graphData, predictions, TRUE, FALSE)
    /\ UNCHANGED <<predictions, graphData, drawn, stored>>
    /\ UNCHANGED avars
    /\ UNCHANGED lvars

\* Lines 182-190 and 214-215: a response with status 200 and a body that
\* parses; setGraphData(data), then setLoading(false) of the finally block
FetchSucceed ==
    /\ Mounted
    /\ ~effectDue
    /\ \E call \in inflight, data \in ViewerResponses :
           /\ inflight' = inflight \ {call}
           /\ graphData' = data
           /\ loading' = FALSE
           /\ stored' = [settled |-> call.id, outcome |-> "ok", writer |-> call.id]
           /\ view' = Render(data, predictions, FALSE, error)
    /\ UNCHANGED <<predictions, error, drawn, started, effectDue>>
    /\ UNCHANGED avars
    /\ UNCHANGED lvars

\* Lines 191-215: fetch rejects, the status is not OK or the body does not
\* parse. The catch block stores the message and the graph data made from
\* the predictions of its closure; pred.code.split raises inside the catch
\* block for a prediction without code, and the finally block runs anyway
FetchFail ==
    /\ Mounted
    /\ ~effectDue
    /\ \E call \in inflight :
           /\ inflight' = inflight \ {call}
           /\ error' = TRUE
           /\ loading' = FALSE
           /\ IF CatchThrows(call.closure)
              THEN /\ graphData' = graphData
                   /\ stored' = [stored EXCEPT !.settled = call.id, !.outcome = "threw"]
              ELSE /\ graphData' = CatchGraphData(call.closure)
                   /\ stored' = [settled |-> call.id, outcome |-> "failed",
                                 writer |-> call.id]
           /\ view' = Render(graphData', predictions, FALSE, TRUE)
    /\ UNCHANGED <<predictions, drawn, started, effectDue>>
    /\ UNCHANGED avars
    /\ UNCHANGED lvars

\* The parent renders the component with another prediction result: the
\* body runs with the state as it is and the effect is scheduled (line 217)
PropChange ==
    /\ Mounted
    /\ ~effectDue
    /\ started < MaxFetches
    /\ \E pr \in ViewerPredictions \ {predictions} :
           /\ predictions' = pr
           /\ view' = Render(graphData, pr, loading, error)
    /\ effectDue' = TRUE
    /\ UNCHANGED <<graphData, loading, error, drawn>>
    /\ UNCHANGED <<inflight, started, stored>>
    /\ UNCHANGED avars
    /\ UNCHANGED lvars

NextViewer == Mount \/ RunEffect \/ FetchSucceed \/ FetchFail \/ PropChange

SpecViewer == InitViewer /\ [][NextViewer]_vars


---------------------------------------------------------------------------
(* The main component: handleSubmit of App.jsx, lines 98-127 *)

MaxText == 3   \* longest case text, in characters

\* A case text is a sequence of characters: a blank, or a letter
Blank == " "
CaseTexts == SeqsUpTo({Blank, "x"}, MaxText)

\* String.prototype.trim: the text without its leading and trailing blanks
RECURSIVE Trim(_)
Trim(text) ==
    IF text = <<>> THEN text
    ELSE IF Head(text) = Blank THEN Trim(Tail(text))
    ELSE IF text[Len(text)] = Blank THEN Trim(SubSeq(text, 1, Len(text) - 1))
    ELSE text

Tabs == {"input", "config", "results", "visualization", "explanation"}

\* The bodies that response.json() parses: prediction results, and the
\* body of an error response, which lists no predictions
PredictBodies ==
    {ExamplePrediction,
     PredictionResult(Some(<<Pred(C4280, <<"d4">>, 6)>>), None),
     PredictionResult(None, None)}

\* The main component as constructed; predictions is its state, which it
\* hands to the viewer as a prop
InitApp ==
    /\ ComponentIdle
    /\ LayoutIdle

\* handleCaseInput (the textarea is disabled while loading, CaseInput.jsx
\* line 28)
HandleCaseInput ==
    /\ activeTab = "input"
    /\ ~appLoading
    /\ \E text \in CaseTexts \ {caseText} : caseText' = text
    /\ UNCHANGED <<appLoading, activeTab, request, lastAlert>>
    /\ UNCHANGED <<predictions, graphData, loading, error, view, drawn, evars>>
    /\ UNCHANGED lvars

\* setActiveTab of the navigation; the three result tabs are disabled
\* while predictions is null (lines 255, 272, 289)
SelectTab ==
    /\ \E tab \in Tabs \ {activeTab} :
           /\ tab \in {"results", "visualization", "explanation"} => ~predictions.isNull
           /\ activeTab' = tab
    /\ UNCHANGED <<caseText, appLoading, request, lastAlert>>
    /\ UNCHANGED <<predictions, graphData, loading, error, view, drawn, evars>>
    /\ UNCHANGED lvars

\* The input form is shown and its button is enabled: never while loading
\* (CaseInput.jsx lines 13 and 32 also ask for a non-blank text, the form
\* of part_000 line 686 does not)
CanSubmit == activeTab = "input" /\ ~appLoading

\* Lines 99-103: handleSubmit with a blank text alerts and returns
SubmitBlank ==
    /\ CanSubmit
    /\ Trim(caseText) = EmptyString
    /\ lastAlert' = "blank"
    /\ UNCHANGED <<caseText, appLoading, activeTab, request>>
    /\ UNCHANGED <<predictions, graphData, loading, error, view, drawn, evars>>
    /\ UNCHANGED lvars

\* Lines 104-117: setLoading(true) and the request is sent
SubmitSend ==
    /\ CanSubmit
    /\ Trim(caseText) # EmptyString
    /\ appLoading' = TRUE
    /\ request' = "pending"
    /\ UNCHANGED <<caseText, activeTab, lastAlert>>
    /\ UNCHANGED <<predictions, graphData, loading, error, view, drawn, evars>>
    /\ UNCHANGED lvars

\* The same with a catch block that also drops the stored predictions
ResponseThrowsClearing ==
    /\ request = "pending"
    /\ request' = "failed"
    /\ lastAlert' = "failed"
    /\ appLoading' = FALSE
    /\ predictions' = NullPredictions
    /\ UNCHANGED <<caseText, activeTab>>
    /\ UNCHANGED <<graphData, loading, error, view, drawn, evars>>
    /\ UNCHANGED lvars

\* Lines 121-126: fetch rejects or response.json() throws; the catch block
\* alerts and the finally block clears loading
ResponseThrows ==
    /\ request = "pending"
    /\ request' = "failed"
    /\ lastAlert' = "failed"
    /\ appLoading' = FALSE
    /\ UNCHANGED <<caseText, activeTab>>
    /\ UNCHANGED <<predictions, graphData, loading, error, view, drawn, evars>>
    /\ UNCHANGED lvars

\* Lines 118-120 and 124-126: the body parses, whatever the status; it is
\* stored, the tab becomes 'results' and the finally block clears loading
ResponseStored ==
    /\ request = "pending"
    /\ \E data \in PredictBodies : predictions' = data
    /\ activeTab' = "results"
    /\ appLoading' = FALSE
    /\ request' = "ok"
    /\ UNCHANGED <<caseText, lastAlert>>
    /\ UNCHANGED <<graphData, loading, error, view, drawn, evars>>
    /\ UNCHANGED lvars

NextApp ==
    \/ HandleCaseInput
    \/ SelectTab
    \/ SubmitBlank
    \/ SubmitSend
    \/ ResponseThrows
    \/ ResponseStored

SpecApp == InitApp /\ [][NextApp]_vars


---------------------------------------------------------------------------
(* Properties of the graph builder, checked under SpecBuild *)

Rendered == view # NoView

\* The stored graph data has at least one node
HasExternalNodes ==
    /\ ~graphData.isNull
    /\ graphData.nodes.def
    /\ Len(graphData.nodes.val) >= 1

\* The ranked predictions of the prediction result
RankedPredictions ==
    IF predictions.isNull THEN <<>> ELSE OrEmpty(predictions.icdPredictions)

NodesOfType(type) == {i \in DOMAIN view.nodes : view.nodes[i].type = type}

EdgesOfType(type) == {i \in DOMAIN view.edges : view.edges[i].type = type}

HasEdgeLike(source, target, type, weight) ==
    \E i \in DOMAIN view.edges : view.edges[i] = Edge(source, target, type, weight)

ExampleCase ==
    /\ predictions = ExamplePrediction
    /\ ~HasExternalNodes
    /\ Rendered

\* C1 (as stated): for the example prediction and no external graph the
\* graph has two ICD nodes, one disease node, a parent-child edge from
\* 410.7 to 410.71 of weight 0.9, and entity-icd edges of weights 0.72 and
\* 0.64 from the disease entity to 410.71 and 410.7.
C1_ExampleWithParentChildEdge ==
    ExampleCase =>
        /\ view.kind = "graph"
        /\ Cardinality(NodesOfType(IcdType)) = 2
        /\ Cardinality(NodesOfType(EntityType("diseases"))) = 1
        /\ HasEdgeLike(C4107, C41071, "parent-child", 90)
        /\ HasEdgeLike(EntityId("diseases", "MI"), C41071, "entity-icd", 72)
        /\ HasEdgeLike(EntityId("diseases", "MI"), C4107, "entity-icd", 64)

\* C1 (amended): for the example prediction and no external graph the
\* graph has exactly two ICD nodes and one disease node and no other node,
\* no parent-child edge (the parent id of 410.71 is 410, which is no node),
\* and exactly two edges, the entity-icd edges of weights 0.72 and 0.64
\* from the disease entity to 410.71 and to 410.7.
C1_ExampleGraph ==
    ExampleCase =>
        /\ view.kind = "graph"
        /\ Len(view.nodes) = 3
        /\ Cardinality(NodesOfType(IcdType)) = 2
        /\ Cardinality(NodesOfType(EntityType("diseases"))) = 1
        /\ EdgesOfType("parent-child") = {}
        /\ Len(view.edges) = 2
        /\ HasEdgeLike(EntityId("diseases", "MI"), C41071, "entity-icd", 72)
        /\ HasEdgeLike(EntityId("diseases", "MI"), C4107, "entity-icd", 64)

C1_Witness ==
    /\ ExampleCase
    /\ graphData = NullGraph
    /\ view.kind = "graph"
    /\ view.path = "fallback"

\* C2: every edge of the graph the builder outputs has its source id and
\* its target id among the ids of the output nodes.
C2_NoDanglingEdge ==
    view.kind = "graph" =>
        \A i \in DOMAIN view.edges :
            /\ HasId(view.nodes, view.edges[i].source)
            /\ HasId(view.nodes, view.edges[i].target)

UniqueIds(nodes) ==
    \A i, j \in DOMAIN nodes : nodes[i].id = nodes[j].id => i = j

UniqueCodes(preds) ==
    \A i, j \in DOMAIN preds : preds[i].code = preds[j].code => i = j

\* C3: no two nodes of the output graph share an identifier. It is stated
\* for inputs that repeat no id themselves (the external nodes are distinct
\* and so are the prediction codes), so that only the entity nodes the
\* builder adds can break it.
C3_UniqueNodeIds ==
    (/\ view.kind = "graph"
     /\ UniqueCodes(RankedPredictions)
     /\ (HasExternalNodes => UniqueIds(graphData.nodes.val)))
    => UniqueIds(view.nodes)

\* C4: the builder never throws, whatever is absent or malformed.
C4_NeverThrows == view.kind # "threw"

IsPrefix(s, t) == Len(s) <= Len(t) /\ SubSeq(t, 1, Len(s)) = s

IcdNodesOfView == SelectSeq(view.nodes, LAMBDA n : n.type = IcdType)

\* The ICD nodes are the first min(5, n) predictions, in rank order
IcdNodesAreTopFive ==
    /\ Len(IcdNodesOfView) = Min(5, Len(RankedPredictions))
    /\ \A i \in DOMAIN IcdNodesOfView :
        /\ IcdNodesOfView[i].id = RankedPredictions[i].code
        /\ IcdNodesOfView[i].probability = RankedPredictions[i].probability

\* C9: the builder starts from the external graph exactly when it is
\* present with at least one node; when it is absent or has no node, or the
\* stored data comes from the failed fetch (error is set), the ICD nodes of
\* the graph are the first min(5, n) predictions in rank order, each with
\* its probability. With at least one prediction, all with a code, and no
\* external node a graph is built.
C9_StartingGraph ==
    Rendered =>
        /\ (HasExternalNodes /\ view.kind = "graph") =>
                /\ view.path = "external"
                /\ IsPrefix(graphData.nodes.val, view.nodes)
        /\ (~HasExternalNodes /\ view.kind = "graph") => view.path = "fallback"
        /\ ((~HasExternalNodes \/ error) /\ view.kind = "graph") => IcdNodesAreTopFive
        /\ (/\ ~HasExternalNodes
            /\ ~error
            /\ RankedPredictions # <<>>
            /\ \A i \in DOMAIN RankedPredictions : RankedPredictions[i].code # Undefined)
           => view.kind = "graph"

C9_Witness ==
    /\ ~HasExternalNodes
    /\ view.kind = "graph"
    /\ Len(RankedPredictions) > 5
    /\ Len(IcdNodesOfView) = 5

\* C10: every one of the first 3 labels of every entity category of the
\* prediction result has an entity node of that category in the output
\* graph, on both paths, and a later label that is none of the first 3 has
\* none.
C10_PredictionEntitiesHaveNodes ==
    (view.kind = "graph" /\ predictions.entities.def) =>
        \A g \in DOMAIN predictions.entities.val :
            LET group == predictions.entities.val[g]
                labels == OrEmpty(group.labels)
                first == {labels[i] : i \in 1..Min(3, Len(labels))}
            IN  \A i \in DOMAIN labels :
                    (labels[i] \in first) <=>
                        \E n \in DOMAIN view.nodes :
                            /\ view.nodes[n].id = EntityId(group.type, labels[i])
                            /\ view.nodes[n].type = EntityType(group.type)

\* The edges the builder found on the graph it started from
InputEdges ==
    IF view.path = "external" THEN OrEmpty(graphData.edges) ELSE <<>>

EdgesBetween(edges, s, t) ==
    {i \in DOMAIN edges : edges[i].source = s /\ edges[i].target = t}

HasDot(id) == \E i \in DOMAIN id : id[i] = "."

\* C11: for every ICD node whose id contains '.', and whose parent id (the
\* id less its last '.'-segment) is the id of a node of the graph: when the
\* input holds no edge parent->child the output holds exactly one, of type
\* parent-child and of weight the child node's probability, or 0.5 when the
\* child node has none; when the input holds such an edge none is added.
C11_HierarchyEdges ==
    view.kind = "graph" =>
        \A n \in DOMAIN view.nodes :
            LET child == view.nodes[n]
                parent == ParentCode(child.id)
                given == EdgesBetween(InputEdges, parent, child.id)
                found == EdgesBetween(view.edges, parent, child.id)
            IN  (child.type = IcdType /\ HasDot(child.id) /\ HasId(view.nodes, parent)) =>
                    IF given # {}
                    THEN Cardinality(found) = Cardinality(given)
                    ELSE \E i \in DOMAIN view.edges :
                            /\ found = {i}
                            /\ view.edges[i].type = "parent-child"
                            /\ view.edges[i].weight =
                                   IF child.probability = NoProb
                                   THEN 50
                                   ELSE child.probability * 10

\* The entity nodes of the output graph: line 330 and line 536 know them
\* by the prefix of their id
EntityNodesOfView ==
    {n \in DOMAIN view.nodes : StartsWithEntity(view.nodes[n].id)}

\* The first 3 predictions in rank order
TopThree == Slice(RankedPredictions, 3)

\* The entity-icd edges that the builder added to the edges it started from
AddedEntityIcd ==
    {i \in DOMAIN view.edges :
        i > Len(InputEdges) /\ view.edges[i].type = "entity-icd"}

AddedEntityIcdBetween(s, t) ==
    {i \in AddedEntityIcd : view.edges[i].source = s /\ view.edges[i].target = t}

\* C12 (as stated): for every entity node and each of the first 3
\* predictions in rank order the output holds an entity-icd edge from the
\* entity node to the prediction's code, and no entity-icd edge is added
\* toward a code that is not among the first 3 predictions.
C12_EntityToTopThree ==
    view.kind = "graph" =>
        /\ \A n \in EntityNodesOfView : \A j \in DOMAIN TopThree :
               AddedEntityIcdBetween(view.nodes[n].id, TopThree[j].code) # {}
        /\ \A i \in AddedEntityIcd : \E j \in DOMAIN TopThree :
               view.edges[i].target = TopThree[j].code

\* C12 (amended): for every entity node and each of the first 3
\* predictions in rank order the output holds an entity-icd edge from the
\* entity node to the prediction's code exactly when a node of the output
\* graph has that code as its id; no entity-icd edge is added toward a code
\* that is not among the first 3 predictions.
C12_EntityToTopThreeNodes ==
    view.kind = "graph" =>
        /\ \A n \in EntityNodesOfView : \A j \in DOMAIN TopThree :
               HasId(view.nodes, TopThree[j].code) <=>
                   AddedEntityIcdBetween(view.nodes[n].id, TopThree[j].code) # {}
        /\ \A i \in AddedEntityIcd : \E j \in DOMAIN TopThree :
               view.edges[i].target = TopThree[j].code

\* An external graph with an entity node, more than 3 predictions, one of
\* the first 3 being a node (and linked) and another one not
C12_Witness ==
    /\ view.kind = "graph"
    /\ view.path = "external"
    /\ Len(RankedPredictions) >= 4
    /\ \E n \in EntityNodesOfView : \E j, k \in DOMAIN TopThree :
           /\ AddedEntityIcdBetween(view.nodes[n].id, TopThree[j].code) # {}
           /\ ~HasId(view.nodes, TopThree[k].code)
           /\ AddedEntityIcdBetween(view.nodes[n].id, TopThree[k].code) = {}

\* The category of an entity node, from its type tag `entity_${category}`
CategoryOf(node) == node.type[2]

\* 100 times the weight the policy gives for a probability of p tenths
PolicyWeight(category, p) ==
    IF category = "diseases" THEN p * 8
    ELSE IF category = "symptoms" THEN p * 6
    ELSE 50

\* C13: every entity-icd edge the builder adds goes to the code of one of
\* the first 3 predictions and has weight probability * 0.8 when the
\* category of its entity node is diseases, probability * 0.6 when it is
\* symptoms and 0.5 otherwise, with the probability of that prediction; the
\* weight lies in [0, 1].
C13_WeightPolicy ==
    view.kind = "graph" =>
        \A i \in AddedEntityIcd :
            LET e == view.edges[i]
            IN  /\ \E n \in EntityNodesOfView : \E j \in DOMAIN TopThree :
                       /\ view.nodes[n].id = e.source
                       /\ TopThree[j].code = e.target
                       /\ e.weight = PolicyWeight(CategoryOf(view.nodes[n]),
                                                  TopThree[j].probability)
                /\ 0 <= e.weight
                /\ e.weight <= 100

\* A graph with an edge of each of the three kinds toward the prediction
\* 410.71 of probability 0.9
C13_Witness ==
    /\ view.kind = "graph"
    /\ \E i, j, k \in AddedEntityIcd :
           /\ view.edges[i] = Edge(EntityId("diseases", "MI"), C41071, "entity-icd", 72)
           /\ view.edges[j] = Edge(EntityId("symptoms", "pain"), C41071, "entity-icd", 54)
           /\ view.edges[k] = Edge(EntityId("procedures", "PCI"), C41071, "entity-icd", 50)

\* The edges of the external graph that go from an entity node of the
\* output to a node that is one of the first 3 predictions
ExternalEntityToTopThree ==
    {i \in DOMAIN InputEdges :
        /\ \E n \in EntityNodesOfView : view.nodes[n].id = InputEdges[i].source
        /\ HasId(view.nodes, InputEdges[i].target)
        /\ \E j \in DOMAIN TopThree : TopThree[j].code = InputEdges[i].target}

\* C14: the output built on an external graph begins with all the edges of
\* that graph, in their order, and for each of them that goes from an
\* entity node to a node of a top-3 prediction it also holds an entity-icd
\* edge that the builder added for the same source and target.
C14_ExternalEdgesKept ==
    (view.kind = "graph" /\ view.path = "external") =>
        /\ IsPrefix(InputEdges, view.edges)
        /\ \A i \in ExternalEntityToTopThree :
               AddedEntityIcdBetween(InputEdges[i].source, InputEdges[i].target) # {}

\* An output with two edges for one ordered pair: the one of the external
\* graph and the entity-icd edge added to it
C14_Witness ==
    /\ view.kind = "graph"
    /\ view.path = "external"
    /\ \E i \in ExternalEntityToTopThree :
           /\ view.edges[i] = InputEdges[i]
           /\ view.edges[i].type # "entity-icd"
           /\ Cardinality(EdgesBetween(view.edges, InputEdges[i].source,
                                       InputEdges[i].target)) >= 2

\* How many times x occurs in the list
Occurrences(list, x) == Cardinality({i \in DOMAIN list : list[i] = x})

\* The two lists hold the same elements the same number of times
SameMultiset(a, b) ==
    \A x \in {a[i] : i \in DOMAIN a} \cup {b[i] : i \in DOMAIN b} :
        Occurrences(a, x) = Occurrences(b, x)

IdsOf(nodes) == [i \in DOMAIN nodes |-> nodes[i].id]

\* The body ran on the graph data that the catch block stored for the
\* prediction result
CatchRouteRendered ==
    /\ Rendered
    /\ ~CatchThrows(predictions)
    /\ graphData = CatchGraphData(predictions)

\* What the body returns for the same prediction result while the graph
\* data is null and no error is stored
RenderTimeRoute == Render(NullGraph, predictions, FALSE, FALSE)

\* C29: for the same prediction result the graph built from the graph data
\* of the catch block and the graph synthesized at render time have the
\* same multiset of node ids and the same multiset of edges (source,
\* target, kind, weight), also when codes or entity labels repeat.
C29_FallbackRoutesAgree ==
    CatchRouteRendered =>
        /\ view.kind = RenderTimeRoute.kind
        /\ SameMultiset(IdsOf(view.nodes), IdsOf(RenderTimeRoute.nodes))
        /\ SameMultiset(view.edges, RenderTimeRoute.edges)


---------------------------------------------------------------------------
(* Properties of calculateNodePositions, checked under SpecLayout *)

\* C5: for a graph with at least one node the keys of the returned
\* position map are exactly the ids of the nodes.
C5_KeysAreNodeIds ==
    (lpc = "returned" /\ lnodes # <<>>) => DOMAIN positions = IdSet(lnodes)

C5_Witness ==
    /\ lpc = "returned"
    /\ Cardinality(IdSet(lnodes)) = 3
    /\ ledges # <<>>
    /\ DOMAIN positions = IdSet(lnodes)

\* C6: on a canvas of width and height at least 160 every returned
\* coordinate lies between the margin 80 and the dimension less 80.
C6_WithinMargins ==
    (lpc = "returned" /\ lwidth >= 160 /\ lheight >= 160) =>
        \A id \in DOMAIN positions :
            /\ 80 * Unit <= positions[id].x
            /\ positions[id].x <= (lwidth - 80) * Unit
            /\ 80 * Unit <= positions[id].y
            /\ positions[id].y <= (lheight - 80) * Unit

\* A returned map in which the clamp held a node at the left margin of a
\* canvas that has room between its margins
C6_Witness ==
    /\ lpc = "returned"
    /\ lwidth = 400
    /\ lheight = 300
    /\ \E id \in DOMAIN positions : positions[id].x = 80 * Unit

\* C7: for a graph with no nodes the returned position map has no key.
C7_EmptyGraphEmptyMap ==
    (lpc = "returned" /\ lnodes = <<>>) => DOMAIN positions = {}

\* C8: when the width or the height is 0 or negative the returned position
\* map is empty: no node is placed. It is stated for graphs that have a
\* node, where the key written for an empty node list plays no part.
C8_NoAreaEmptyMap ==
    (lpc = "returned" /\ lnodes # <<>> /\ (lwidth <= 0 \/ lheight <= 0))
    => DOMAIN positions = {}


\* The number of edge ends that name the id: an edge counts once for its
\* source and once for its target
EndpointCount(id) ==
    Cardinality({<<i, end>> \in (DOMAIN ledges) \X {"source", "target"} :
                    ledges[i][end] = id})

\* The first node, in list order, that no node exceeds in degree
FirstOfMaxDegree ==
    lnodes[CHOOSE i \in DOMAIN lnodes :
              /\ \A j \in DOMAIN lnodes :
                     EndpointCount(lnodes[j]) <= EndpointCount(lnodes[i])
              /\ \A j \in 1..(i - 1) :
                     EndpointCount(lnodes[j]) < EndpointCount(lnodes[i])]

CanvasCenter == [x |-> CenterX(lwidth), y |-> CenterY(lheight)]

\* The positions object as the initial placement left it
Placed == lpc = "loop" /\ iter = 0

\* C15: the node placed at the center of the canvas is the first node, in
\* list order, whose degree (the number of edge ends that name it) is the
\* largest; with no edges it is the first node. On a canvas with area no
\* other node is placed there.
C15_CenterIsFirstOfMaxDegree ==
    (Placed /\ lnodes # <<>>) =>
        /\ positions[FirstOfMaxDegree] = CanvasCenter
        /\ (ledges = <<>> => FirstOfMaxDegree = lnodes[1])
        /\ ((lwidth > 0 /\ lheight > 0) =>
               \A id \in DOMAIN positions :
                   positions[id] = CanvasCenter => id = FirstOfMaxDegree)

\* Three nodes of which the second has two edge ends and the others one:
\* the second is the center
C15_Witness ==
    /\ Placed
    /\ lwidth = 800
    /\ Cardinality(IdSet(lnodes)) = 3
    /\ EndpointCount(lnodes[2]) = 2
    /\ EndpointCount(lnodes[1]) = 1
    /\ positions[lnodes[2]] = CanvasCenter
    /\ positions[lnodes[1]] # CanvasCenter


\* No id occurs twice in the node list
UniqueLayoutIds == Cardinality(IdSet(lnodes)) = Len(lnodes)

\* The length of (dx, dy) in tenths of a pixel: floored at 1 pixel, or
\* replaced by 1 pixel only when it is 0
EdgeLength(dx, dy, floored) ==
    LET d == ISqrt(Coarse(dx) * Coarse(dx) + Coarse(dy) * Coarse(dy))
    IN  IF floored THEN Max(Unit \div Grain, d)
        ELSE IF dx = 0 /\ dy = 0 THEN Unit \div Grain
        ELSE Max(1, d)

\* The sum over the edges from edge i on, both ends positioned, of the
\* spring force on the node id: (d - 200) * 0.005 along the unit vector from
\* source to target on the source, and its opposite on the target
RECURSIVE SpringOn(_, _, _)
SpringOn(id, i, floored) ==
    IF i > Len(ledges) THEN Zero
    ELSE LET s == ledges[i].source
             t == ledges[i].target
             rest == SpringOn(id, i + 1, floored)
         IN  IF s \notin DOMAIN positions \/ t \notin DOMAIN positions THEN rest
             ELSE LET dx == positions[t].x - positions[s].x
                      dy == positions[t].y - positions[s].y
                      d == EdgeLength(dx, dy, floored)
                      f == TDiv((d * Grain - 200 * Unit) * 5, 1000)
                      sign == (IF s = id THEN 1 ELSE 0) - (IF t = id THEN 1 ELSE 0)
                  IN  [x |-> rest.x + sign * TDiv(Coarse(dx) * f, d),
                       y |-> rest.y + sign * TDiv(Coarse(dy) * f, d)]

\* The repulsion on the node id in the current positions
RepulsionOn(id) ==
    RepelFrom(lnodes, 1, 2, positions, [n \in IdSet(lnodes) |-> Zero])[id]

\* The place of the node id after a move by 0.1 times the force and the clamp
MovedBy(id, fx, fy) ==
    [x |-> Max(80 * Unit, Min((lwidth - 80) * Unit, positions[id].x + TDiv(fx, 10))),
     y |-> Max(80 * Unit, Min((lheight - 80) * Unit, positions[id].y + TDiv(fy, 10)))]

\* One pass of the loop moves every node by its repulsion and the spring
\* force of the given reading
SpringStep(floored) ==
    (LayoutIterate /\ UniqueLayoutIds) =>
        \A id \in IdSet(lnodes) :
            positions'[id] =
                MovedBy(id, SpringOn(id, 1, floored).x + RepulsionOn(id).x,
                            SpringOn(id, 1, floored).y + RepulsionOn(id).y)

AttractionOn(id) ==
    AttractFrom(ledges, 1, positions, [n \in IdSet(lnodes) |-> Zero])[id]

\* The distance of two positioned nodes in tenths of a pixel
NodeDistance(a, b) ==
    EdgeLength(positions[b].x - positions[a].x, positions[b].y - positions[a].y, FALSE)

\* The magnitude of the repulsion at a distance of d tenths of a pixel
PushMagnitude(d) ==
    IF d < 120 * (Unit \div Grain)
    THEN (120 * Unit - d * Grain) * 2
    ELSE (2000 * Unit * (Unit \div Grain) * (Unit \div Grain)) \div (d * d)

\* The sum over the pairs of list places (i, j), i < j, from the pair
\* (i, j) on, of the repulsion on the node id: the second node of a pair is
\* pushed along the unit vector from the first to the second, the first
\* one the opposite way
RECURSIVE PushOn(_, _, _)
PushOn(id, i, j) ==
    IF i > Len(lnodes) THEN Zero
    ELSE IF j > Len(lnodes) THEN PushOn(id, i + 1, i + 2)
    ELSE LET a == lnodes[i]
             b == lnodes[j]
             rest == PushOn(id, i, j + 1)
             d == NodeDistance(a, b)
             sign == (IF b = id THEN 1 ELSE 0) - (IF a = id THEN 1 ELSE 0)
         IN  [x |-> rest.x + sign * TDiv(Coarse(positions[b].x - positions[a].x)
                                         * PushMagnitude(d), d),
              y |-> rest.y + sign * TDiv(Coarse(positions[b].y - positions[a].y)
                                         * PushMagnitude(d), d)]

SummedForce(id) ==
    [x |-> SpringOn(id, 1, FALSE).x + PushOn(id, 1, 2).x,
     y |-> SpringOn(id, 1, FALSE).y + PushOn(id, 1, 2).y]

\* C18: in each iteration the force on every node is summed from zero over
\* the positions held when the iteration starts, and every node then moves
\* by 0.1 times its force and is clamped: the place of a node after the
\* iteration depends on the places before it only, not on the move of
\* another node in the same iteration.
C18_ForcesFromStartPositions ==
    [][(LayoutIterate /\ UniqueLayoutIds) =>
        \A id \in IdSet(lnodes) :
            positions'[id] = MovedBy(id, SummedForce(id).x, SummedForce(id).y)]_vars

\* Two iterations have run on three nodes with edges, and each of them
\* moved all three nodes
C18_Witness ==
    /\ lpc = "loop"
    /\ iter = 2
    /\ lwidth = 800
    /\ ledges # <<>>
    /\ Len(lnodes) = 3
    /\ UniqueLayoutIds
    /\ LET first == Iterate(lnodes, ledges,
                            InitialPositions(lnodes, ledges, lwidth, lheight),
                            lwidth, lheight)
       IN  \A id \in IdSet(lnodes) :
               /\ first[id] # InitialPositions(lnodes, ledges, lwidth, lheight)[id]
               /\ positions[id] # first[id]


---------------------------------------------------------------------------
(* Termination of calculateNodePositions, checked under SpecLayoutFair *)

\* Every edge names a source and a target
WellFormedEdges ==
    \A i \in DOMAIN ledges :
        ledges[i].source # Undefined /\ ledges[i].target # Undefined

\* C19: the function returns only after exactly 50 passes of the loop, and
\* for every graph whose edges name their ends a call does return: it
\* raises no error and stops neither earlier nor later.
C19_FiftyPassesThenReturn ==
    /\ [](lpc = "returned" => iter = 50)
    /\ [](WellFormedEdges => lpc # "threw")
    /\ ((lpc = "idle" /\ WellFormedEdges) ~> (lpc = "returned" /\ iter = 50))

\* The function returned after 50 passes although a further pass would
\* still move a node, and likewise when the last passes moved nothing
C19_Witness ==
    /\ lpc = "returned"
    /\ iter = 50
    /\ lwidth = 800
    /\ Len(lnodes) = 3
    /\ UniqueLayoutIds
    /\ Iterate(lnodes, ledges, positions, lwidth, lheight) # positions


\* The call has returned for a graph of at least two nodes with distinct ids
\* and no edge
ReturnedWithoutEdges ==
    /\ lpc = "returned"
    /\ ledges = <<>>
    /\ Len(lnodes) >= 2
    /\ UniqueLayoutIds

\* C22: for a graph of at least two nodes with distinct ids and no edges
\* the returned positions are pairwise distinct: no two nodes coincide.
C22_DisconnectedNodesDistinct ==
    ReturnedWithoutEdges =>
        \A a, b \in IdSet(lnodes) : a # b => positions[a] # positions[b]


---------------------------------------------------------------------------
(* Two calls of calculateNodePositions, checked under SpecLayoutTwice *)

\* The second of two calls with the same arguments has returned
SecondCallReturned == lpc = "returned" /\ DOMAIN previous # {}

---------------------------------------------------------------------------
(* Properties of one run of the component body, checked under SpecDraw *)

\* The graph was built, laid out and drawn
Drawn == view.kind = "graph" /\ lpc = "returned" /\ drawn # NoDrawing

\* A step leaves the prediction result and the stored graph data as they
\* were, the built lists once they are built, and the lists handed to the
\* layout once it was called
InputsKept ==
    /\ predictions' = predictions
    /\ graphData' = graphData
    /\ view.kind = "graph" => view' = view
    /\ lpc # "idle" => lnodes' = lnodes /\ ledges' = ledges

\* The built lists start with the nodes and edges of the stored graph
\* data, each as it is stored
StoredListsCopied ==
    view.path = "external" =>
        /\ SubSeq(view.nodes, 1, Len(graphData.nodes.val)) = graphData.nodes.val
        /\ SubSeq(view.edges, 1, Len(OrEmpty(graphData.edges))) = OrEmpty(graphData.edges)

C23_NodeRadius ==
    Drawn =>
        \A i \in DOMAIN view.nodes :
            IF view.nodes[i].type # IcdType THEN drawn.radii[i] = 160
            ELSE view.nodes[i].probability # NoProb =>
                     drawn.radii[i] = 200 + view.nodes[i].probability * 20

\* 1 + 4 * (w - min) / (max - min) with the smallest and largest weight of
\* the edges, and with the span from 0.1 to 1.0 when the two are equal
StrokeWidthObserved(edges, i) ==
    LET ws == Weights(edges)
        least == MinOf(ws, ws[1])
        most == MaxOf(ws, ws[1])
    IN  IF most = least
        THEN 100 + (400 * (ws[i] - 10)) \div 90
        ELSE 100 + (400 * (ws[i] - least)) \div (most - least)

\* The edge is drawn: both its ends have a position
EdgeDrawn(i) == drawn.widths[i] # NotDrawn

\* C24: the stroke width of each drawn edge is 1 + 4 * (w - min) / (max - min)
\* for the smallest and largest weight among the edges of the graph, the
\* span from 0.1 to 1.0 being used only when all weights are equal; it is
\* between 1 and 5, 1 for the lightest edge and 5 for the heaviest.
C24_StrokeWidth ==
    Drawn =>
        \A i \in DOMAIN view.edges :
            EdgeDrawn(i) =>
                /\ drawn.widths[i] = StrokeWidthObserved(view.edges, i)
                /\ drawn.widths[i] >= 100
                /\ drawn.widths[i] <= 500
                /\ \/ \A j \in DOMAIN view.edges :
                          Weights(view.edges)[j] = Weights(view.edges)[i]
                   \/ /\ (\A j \in DOMAIN view.edges :
                             Weights(view.edges)[i] <= Weights(view.edges)[j])
                          => drawn.widths[i] = 100
                      /\ (\A j \in DOMAIN view.edges :
                             Weights(view.edges)[i] >= Weights(view.edges)[j])
                          => drawn.widths[i] = 500


---------------------------------------------------------------------------
(* Properties of the mounted component, checked under SpecViewer *)

\* The call of fetchGraphData made for the current prediction result has
\* settled
FetchSettled ==
    /\ ~effectDue
    /\ started >= 1
    /\ \A call \in inflight : call.id # started

\* C25: for a prediction result given to the viewer the builder does not
\* run before the fetch started for that result has settled: while the
\* fetch has not started or is in flight the body builds no graph.
C25_NoBuildBeforeFetchSettles ==
    (~predictions.isNull /\ view.kind = "graph") => FetchSettled

\* Every call of fetchGraphData has settled
AllSettled == ~effectDue /\ inflight = {}

\* The call made for the current prediction result was the last to settle,
\* it failed, and its catch block ran to its end
FailedLast ==
    /\ AllSettled
    /\ ~predictions.isNull
    /\ stored.settled = started
    /\ stored.outcome = "failed"

NoPredictionsListed ==
    ~predictions.icdPredictions.def \/ Len(predictions.icdPredictions.val) = 0

\* The codes of the first five predictions
TopFiveCodes ==
    {TopPredictionNodes(OrEmpty(predictions.icdPredictions))[i].id :
        i \in 1..Min(5, Len(OrEmpty(predictions.icdPredictions)))}

LatestCallWrites == ~predictions.isNull /\ ~CatchThrows(predictions)

\* C27: once all fetches have settled, the stored graph data was written
\* by the fetch started for the latest prediction result, whatever the
\* order in which the fetches settled: no older fetch wrote after it.
C27_LatestFetchWins ==
    (AllSettled /\ LatestCallWrites) => stored.writer = started

\* C28: loading is true exactly while at least one fetch is in flight.
C28_LoadingWhileInFlight ==
    loading <=> inflight # {}


---------------------------------------------------------------------------
(* Properties of handleSubmit, checked under SpecApp *)

\* What a step may do to the state of the main component
SubmitRules ==
    /\ (Trim(caseText) = EmptyString /\ request # "pending") =>
           /\ request' = request
           /\ appLoading' = appLoading
           /\ predictions' = predictions
    /\ lastAlert' # lastAlert =>
           UNCHANGED <<caseText, activeTab, predictions>>
    /\ (request # "pending" /\ request' = "pending") =>
           /\ Trim(caseText) # EmptyString
           /\ appLoading'
    /\ (request = "pending" /\ request' = "failed") =>
           /\ ~appLoading'
           /\ predictions' = predictions
           /\ activeTab' = activeTab
    /\ (request = "pending" /\ request' = "ok") =>
           /\ ~appLoading'
           /\ ~predictions'.isNull
           /\ activeTab' = "results"
    /\ request = "pending" => request' \in {"pending", "failed", "ok"}

\* C30: a submit with blank case text sends no request and changes no
\* state; otherwise loading is true while the request is pending and false
\* after it settled; when the request throws, the stored predictions and
\* the active tab stay as they are, and on success the predictions are
\* stored and the active tab becomes 'results'.
C30_SubmitHandler ==
    /\ [][SubmitRules]_vars
    /\ [](appLoading <=> request = "pending")

\* A request failed after an earlier one had stored the worked example,
\* which is still stored, and a later blank submit was refused
C30_Witness ==
    /\ request = "failed"
    /\ predictions = ExamplePrediction
    /\ activeTab = "input"
    /\ Trim(caseText) = EmptyString
    /\ caseText # EmptyString
    /\ lastAlert = "blank"
    /\ ~appLoading

===========================================================================
